---------------------------- MODULE Spec2Model ----------------------------
(***************************************************************************)
(* A model of the task identifier parser, the dependency graph validator   *)
(* (types/utils/validation.ts) and the complexity analysis run             *)
(* (scripts/modules/task-manager/analyze-task-complexity.js).              *)
(***************************************************************************)
EXTENDS Integers, Sequences, FiniteSets, TLC

VARIABLES
    idInput,       \* the string handed to parseTaskId, a sequence of characters
    idResult,      \* the IdValidation it returned
    graphTasks,    \* the array handed to findCircularDependencies / the values of allTasks
    cyclesResult,  \* what findCircularDependencies returned
    depResult,     \* what hasDependency returned, with its arguments
    tasksFile,     \* the tasks file at options.file
    reportFile,    \* the report file at options.output
    run,           \* per invocation of analyzeTaskComplexity: its position and locals
    runsLeft,      \* invocations still to be started
    mergeInput,    \* a report file and the new entries of two runs
    mergeResult,   \* the report file after those runs, in each order
    modeInput,     \* the arguments handed to the complexity mode functions
    modeResult,    \* what getValidComplexityMode / generateComplexityAnalysisPrompt returned
    config,        \* the project's configuration (.taskmasterconfig)
    claude,        \* a call of generateClaudeCodeText and the claude process it spawned
    mainResult,    \* aiServiceResponse.mainResult, the generated text as a sequence of tokens
    parseResult    \* the text handed to JSON.parse and what parsing it gave

idVars == <<idInput, idResult>>
graphVars == <<graphTasks, cyclesResult, depResult>>
runVars == <<tasksFile, reportFile, run, runsLeft>>
mergeVars == <<mergeInput, mergeResult>>
modeVars == <<modeInput, modeResult>>
configVars == <<config>>
claudeVars == <<claude>>
repairVars == <<mainResult, parseResult>>
vars == <<idInput, idResult, graphTasks, cyclesResult, depResult,
          tasksFile, reportFile, run, runsLeft,
          mergeInput, mergeResult, modeInput, modeResult, config, claude, mainResult, parseResult>>

-----------------------------------------------------------------------------
(* Bounds *)

MaxIdLen == 5      \* longest identifier string
NumNodes == 3      \* tasks of a collection, with ids 1..NumNodes
MaxEdges == 3      \* dependency entries of a collection, all tasks together
NumTasks == 2      \* tasks of the tasks file, with ids 1..NumTasks
MaxIdItems == 2    \* items of the --id option
MaxResp == 2       \* entries of a generated response
MaxRuns == 2       \* runs of analyzeTaskComplexity against one report file
MaxTextLen == 5    \* tokens of a generated text
MaxChunks == 2     \* data events of the claude process, per stream
MaxClock == 4      \* how long a call is watched, in ticks of ten seconds

-----------------------------------------------------------------------------
(* Small helpers on sequences *)

Range(s) == {s[i] : i \in DOMAIN s}

SeqsUpTo(S, n) == UNION {[1..k -> S] : k \in 0..n}

\* Array.prototype.indexOf, 0-based, -1 when absent
IndexOf(s, x) ==
    IF \E i \in DOMAIN s : s[i] = x
    THEN (CHOOSE i \in DOMAIN s : s[i] = x /\ \A j \in 1..(i - 1) : s[j] # x) - 1
    ELSE -1

\* Array.prototype.slice(start) for start >= -1 (a negative start counts from the end)
SliceFrom(s, start) ==
    LET from == IF start < 0 THEN (IF Len(s) + start < 0 THEN 0 ELSE Len(s) + start)
                ELSE start
    IN  SubSeq(s, from + 1, Len(s))

-----------------------------------------------------------------------------
(* parseTaskId: types/utils/validation.ts *)

Digits == {"0", "1", "2"}
Chars == Digits \cup {".", "a"}

DigitValue(c) == CASE c = "0" -> 0 [] c = "1" -> 1 [] c = "2" -> 2 [] OTHER -> -1

\* String.prototype.split('.'): the pieces between the dots, empty pieces kept
RECURSIVE SplitDots(_, _, _)
SplitDots(s, i, cur) ==
    IF i > Len(s) THEN <<cur>>
    ELSE IF s[i] = "." THEN <<cur>> \o SplitDots(s, i + 1, <<>>)
    ELSE SplitDots(s, i + 1, Append(cur, s[i]))

Split(s) == SplitDots(s, 1, <<>>)

\* /^\d+$/.test(part)
AllDigits(part) == Len(part) > 0 /\ \A i \in DOMAIN part : part[i] \in Digits

\* parseInt(part) of a string of decimal digits
RECURSIVE ParseIntAcc(_, _, _)
ParseIntAcc(part, i, acc) ==
    IF i > Len(part) THEN acc
    ELSE ParseIntAcc(part, i + 1, acc * 10 + DigitValue(part[i]))

ParseInt(part) == ParseIntAcc(part, 1, 0)

\* JoinDots that puts nothing between the parts
RECURSIVE JoinNoSeparator(_)
JoinNoSeparator(parts) ==
    IF Len(parts) = 0 THEN <<>> ELSE parts[1] \o JoinNoSeparator(Tail(parts))

\* Array.prototype.join('.')
RECURSIVE JoinDots(_)
JoinDots(parts) ==
    IF Len(parts) = 0 THEN <<>>
    ELSE IF Len(parts) = 1 THEN parts[1]
    ELSE parts[1] \o <<".">> \o JoinDots(Tail(parts))

PartOk(part) == AllDigits(part) /\ ParseInt(part) > 0

Undefined == <<"undefined">>

parseTaskId(id) ==
    LET parts == Split(id)
    IN  [isValid      |-> \A i \in DOMAIN parts : PartOk(parts[i]),
         isMainTask   |-> Len(parts) = 1,
         isSubtask    |-> Len(parts) = 2,
         isSubSubtask |-> Len(parts) = 3,
         level        |-> Len(parts),
         parts        |-> parts,
         parent       |-> IF Len(parts) > 1
                          THEN JoinDots(SubSeq(parts, 1, Len(parts) - 1))
                          ELSE Undefined]

NoIdResult == [called |-> FALSE, value |-> parseTaskId(<<"1">>)]

ParseId ==
    /\ ~idResult.called
    /\ idResult' = [called |-> TRUE, value |-> parseTaskId(idInput)]
    /\ UNCHANGED idInput

-----------------------------------------------------------------------------
(* Dependency graph validator: types/utils/validation.ts *)

NodeIds == 1..NumNodes
DanglingId == NumNodes + 1          \* an id that names no task of any collection
DepIds == NodeIds \cup {DanglingId}

\* Map.get(id) over new Map(tasks.map(t => [t.id, t]))
HasTask(tasks, id) == \E i \in DOMAIN tasks : tasks[i].id = id
GetTask(tasks, id) ==
    tasks[CHOOSE i \in DOMAIN tasks :
              tasks[i].id = id /\ \A j \in DOMAIN tasks : tasks[j].id = id => j <= i]

RECURSIVE dfsTraversal(_, _, _, _), dfsDeps(_, _, _, _, _)

\* st.calls records every call of dfsTraversal: its id and path arguments and
\* the visited and stack sets as the call finds them
Called(st, id, path) ==
    [st EXCEPT !.calls = Append(st.calls, [id |-> id, path |-> path,
                                           visited |-> st.visited, stack |-> st.stack])]

\* dfsTraversal without the visited set
dfsTraversalNoVisited(id, path, st0, tasks) ==
    LET st == Called(st0, id, path)
    IN  IF id \in st.stack
        THEN [st EXCEPT !.found = TRUE,
                        !.cycles = Append(st.cycles, SliceFrom(path, IndexOf(path, id)) \o <<id>>)]
        ELSE LET entered == [st EXCEPT !.found = FALSE, !.stack = st.stack \cup {id}]
                 r == IF HasTask(tasks, id)
                      THEN dfsDeps(GetTask(tasks, id).dependencies, 1,
                                   Append(path, id), entered, tasks)
                      ELSE entered
             IN  IF r.found THEN r ELSE [r EXCEPT !.stack = r.stack \ {id}]

\* dfsTraversal with the visited test ahead of the stack test
dfsTraversalVisitedFirst(id, path, st0, tasks) ==
    LET st == Called(st0, id, path)
    IN  IF id \in st.visited THEN [st EXCEPT !.found = FALSE]
        ELSE IF id \in st.stack
        THEN [st EXCEPT !.found = TRUE,
                        !.cycles = Append(st.cycles, SliceFrom(path, IndexOf(path, id)) \o <<id>>)]
        ELSE LET entered == [st EXCEPT !.found = FALSE,
                                       !.visited = st.visited \cup {id},
                                       !.stack = st.stack \cup {id}]
                 r == IF HasTask(tasks, id)
                      THEN dfsDeps(GetTask(tasks, id).dependencies, 1,
                                   Append(path, id), entered, tasks)
                      ELSE entered
             IN  IF r.found THEN r ELSE [r EXCEPT !.stack = r.stack \ {id}]

\* dfsTraversal that returns for an id without a task before stack.delete(id)
dfsTraversalLeavesMissingOnStack(id, path, st0, tasks) ==
    LET st == Called(st0, id, path)
    IN  IF id \in st.stack
        THEN [st EXCEPT !.found = TRUE,
                        !.cycles = Append(st.cycles, SliceFrom(path, IndexOf(path, id)) \o <<id>>)]
        ELSE IF id \in st.visited THEN [st EXCEPT !.found = FALSE]
        ELSE LET entered == [st EXCEPT !.found = FALSE,
                                       !.visited = st.visited \cup {id},
                                       !.stack = st.stack \cup {id}]
             IN  IF ~HasTask(tasks, id) THEN entered
                 ELSE LET r == dfsDeps(GetTask(tasks, id).dependencies, 1,
                                       Append(path, id), entered, tasks)
                      IN  IF r.found THEN r ELSE [r EXCEPT !.stack = r.stack \ {id}]

\* st carries the containers the calls share: visited, stack, cycles
dfsTraversal(id, path, st0, tasks) ==
    LET st == Called(st0, id, path)
    IN  IF id \in st.stack
        THEN LET cycleStart == IndexOf(path, id)
                 cycle == SliceFrom(path, cycleStart) \o <<id>>
             IN  [st EXCEPT !.found = TRUE, !.cycles = Append(st.cycles, cycle)]
        ELSE IF id \in st.visited THEN [st EXCEPT !.found = FALSE]
        ELSE LET entered == [st EXCEPT !.found = FALSE,
                                       !.visited = st.visited \cup {id},
                                       !.stack = st.stack \cup {id}]
                 r == IF HasTask(tasks, id)
                      THEN dfsDeps(GetTask(tasks, id).dependencies, 1,
                                   Append(path, id), entered, tasks)
                      ELSE entered
             IN  IF r.found THEN r ELSE [r EXCEPT !.stack = r.stack \ {id}]

dfsDeps(deps, i, path, st, tasks) ==
    IF i > Len(deps) THEN [st EXCEPT !.found = FALSE]
    ELSE LET r == dfsTraversal(deps[i], path, st, tasks)
         IN  IF r.found THEN r ELSE dfsDeps(deps, i + 1, path, r, tasks)

\* the loop over the tasks: fresh visited and stack per root, cycles shared
RECURSIVE CollectCycles(_, _, _)
CollectCycles(tasks, i, cycles) ==
    IF i > Len(tasks) THEN cycles
    ELSE CollectCycles(tasks, i + 1,
            dfsTraversal(tasks[i].id, <<>>,
                         [found |-> FALSE, visited |-> {}, stack |-> {},
                          cycles |-> cycles, calls |-> <<>>], tasks).cycles)

\* the "Remove duplicates" loop: keeps the first occurrence of each string
RECURSIVE RemoveDuplicates(_, _, _)
RemoveDuplicates(cycles, i, unique) ==
    IF i > Len(cycles) THEN unique
    ELSE RemoveDuplicates(cycles, i + 1,
            IF cycles[i] \in Range(unique) THEN unique ELSE Append(unique, cycles[i]))

\* the calls of dfsTraversal made for each task of the loop
DfsCalls(tasks) ==
    [i \in DOMAIN tasks |->
        dfsTraversal(tasks[i].id, <<>>,
                     [found |-> FALSE, visited |-> {}, stack |-> {},
                      cycles |-> <<>>, calls |-> <<>>], tasks).calls]

findCircularDependencies(tasks) ==
    RemoveDuplicates(CollectCycles(tasks, 1, <<>>), 1, <<>>)

RECURSIVE checkDeps(_, _, _, _), someDep(_, _, _, _, _)

\* returns the result with the visited set as the call leaves it; the set is
\* kept in insertion order
checkDeps(currentId, targetId, visited, allTasks) ==
    IF currentId \in Range(visited) THEN [res |-> FALSE, visited |-> visited]
    ELSE LET v1 == Append(visited, currentId)
         IN  IF ~HasTask(allTasks, currentId) THEN [res |-> FALSE, visited |-> v1]
             ELSE LET deps == GetTask(allTasks, currentId).dependencies
                  IN  IF targetId \in Range(deps) THEN [res |-> TRUE, visited |-> v1]
                      ELSE someDep(deps, 1, targetId, v1, allTasks)

\* someDep that never descends: only the direct dependencies count
someDepDirectOnly(deps, i, targetId, visited, allTasks) ==
    [res |-> FALSE, visited |-> visited]

someDep(deps, i, targetId, visited, allTasks) ==
    IF i > Len(deps) THEN [res |-> FALSE, visited |-> visited]
    ELSE LET r == checkDeps(deps[i], targetId, visited, allTasks)
         IN  IF r.res THEN r ELSE someDep(deps, i + 1, targetId, r.visited, allTasks)

hasDependency(task, targetId, allTasks) ==
    checkDeps(task.id, targetId, <<>>, allTasks).res

\* The collections: tasks 1..n in order for some n <= NumNodes, with at most
\* MaxEdges dependency entries; an id above n names no task of the collection.
\* edges lists the entries <<task, dependency>> in the order they were added.
EmptyCollection(n) == [i \in 1..n |-> [id |-> i, dependencies |-> <<>>]]

DependenciesOf(edges, i) ==
    LET mine == SelectSeq(edges, LAMBDA e : e[1] = i)
    IN  [j \in 1..Len(mine) |-> mine[j][2]]

Collection(n, edges) ==
    [i \in 1..n |-> [id |-> i, dependencies |-> DependenciesOf(edges, i)]]

NoCycles == [called |-> FALSE, cycles |-> <<>>, calls |-> <<>>]
NoDep == [called |-> FALSE, task |-> 1, target |-> 1, res |-> FALSE, visited |-> <<>>]

\* a behaviour applies one of the two functions to its collection, once
FindCircular ==
    /\ ~cyclesResult.called /\ ~depResult.called
    /\ cyclesResult' = [called |-> TRUE, cycles |-> findCircularDependencies(graphTasks),
                        calls |-> DfsCalls(graphTasks)]
    /\ UNCHANGED <<graphTasks, depResult>>

HasDependency ==
    /\ ~depResult.called /\ ~cyclesResult.called
    /\ \E t \in DOMAIN graphTasks, target \in DepIds :
          depResult' = [called |-> TRUE, task |-> t, target |-> target,
                        res |-> hasDependency(graphTasks[t], target, graphTasks),
                        visited |-> checkDeps(graphTasks[t].id, target, <<>>,
                                              graphTasks).visited]
    /\ UNCHANGED <<graphTasks, cyclesResult>>

-----------------------------------------------------------------------------
(* analyzeTaskComplexity: scripts/modules/task-manager/analyze-task-complexity.js *)

Null == -1          \* null / undefined where a number may stand
NaN == -2           \* what parseInt returns for text that starts with no digit

TaskIds == 1..NumTasks

\* the statuses a task of the file may carry; NoStatus is a task without one
NoStatus == "undefined"
Statuses == {"pending", "done", "Blocked", NoStatus}

\* String.prototype.toLowerCase on the statuses
ToLowerCase(st) == IF st = "Blocked" THEN "blocked" ELSE st

\* the tasks files: unreadable or without tasks, or tasks 1..n in file order
TasksFilesOver(S) ==
    {[readable |-> FALSE, tasks |-> <<>>]} \cup
    {[readable |-> TRUE, tasks |-> ts] :
        ts \in UNION {{[i \in 1..n |-> [id |-> i, status |-> f[i]]] :
                          f \in [1..n -> S]} : n \in 0..NumTasks}}

TasksFiles == TasksFilesOver(Statuses)

\* the statuses of the tasks files a single run is checked against
RunStatuses == Statuses \cup {"in-progress"}

\* --id: a comma separated list; an item is a number or text parseInt rejects
IdItems == {"1", "2", "9", "x"}
ParseIdItem(item) ==
    CASE item = "1" -> 1 [] item = "2" -> 2 [] item = "9" -> 9 [] OTHER -> NaN

UnknownId == ParseIdItem("9")       \* an id no task of the tasks file has

NoIdOption == <<>>      \* options.id absent or ''
IdOptions == SeqsUpTo(IdItems, MaxIdItems)

\* options.id.split(',').map(parseInt).filter(id => !isNaN(id)), or null
RECURSIVE ParsedIds(_)
ParsedIds(items) ==
    IF items = <<>> THEN <<>>
    ELSE LET n == ParseIdItem(Head(items))
         IN  (IF n = NaN THEN <<>> ELSE <<n>>) \o ParsedIds(Tail(items))

HasSpecificIds(o) == o.id # NoIdOption              \* specificIds is not null
SpecificIds(o) == ParsedIds(o.id)
FromId(o) == o.from                                 \* Null when options.from is undefined
ToId(o) == o.to

\* FilterSupplied that forgets the range options
FilterSuppliedIdOnly(o) == HasSpecificIds(o)

\* line 368: specificIds || fromId !== null || toId !== null
FilterSupplied(o) == HasSpecificIds(o) \/ FromId(o) # Null \/ ToId(o) # Null

MapIds(ts) == [i \in DOMAIN ts |-> ts[i].id]
MapTaskIds(es) == [i \in DOMAIN es |-> es[i].taskId]

\* Math.max(...ids); -Infinity of an empty list cannot occur: the file has tasks
MaxOf(ids) == CHOOSE m \in Range(ids) : \A x \in Range(ids) : x <= m

\* Leq that leaves the bound itself out
LeqStrict(a, b) == a # NaN /\ b # NaN /\ a < b

\* >= and <= of JavaScript numbers: false as soon as a side is NaN
Geq(a, b) == a # NaN /\ b # NaN /\ a >= b
Leq(a, b) == a # NaN /\ b # NaN /\ a <= b

ActiveStatuses == {"pending", "blocked", "in-progress"}

\* EffectiveStatus that compares the status as it is written
EffectiveStatusCaseSensitive(t) == IF t.status = NoStatus THEN "pending" ELSE t.status

\* task.status?.toLowerCase() || 'pending'
EffectiveStatus(t) == IF t.status = NoStatus THEN "pending" ELSE ToLowerCase(t.status)

IsActive(t) == EffectiveStatus(t) \in ActiveStatuses

\* lines 243-301: the status filter, then the id filter or else the range filter
SelectTasks(tasks, o) ==
    LET active == SelectSeq(tasks, IsActive)
        InIds(t) == t.id \in Range(SpecificIds(o))
        effectiveFromId == IF FromId(o) # Null THEN FromId(o) ELSE 1
        effectiveToId == IF ToId(o) # Null THEN ToId(o) ELSE MaxOf(MapIds(tasks))
        InRange(t) == Geq(t.id, effectiveFromId) /\ Leq(t.id, effectiveToId)
    IN  IF HasSpecificIds(o) /\ Len(SpecificIds(o)) > 0 THEN SelectSeq(active, InIds)
        ELSE IF FromId(o) # Null \/ ToId(o) # Null THEN SelectSeq(active, InRange)
        ELSE active

\* an entry of complexityAnalysis
Entry(id, score, subtasks) ==
    [taskId |-> id, complexityScore |-> score, recommendedSubtasks |-> subtasks]

\* lines 566-574: the entry pushed for a task the response left out
DefaultEntry(id) == Entry(id, 5, 3)

\* what a response says of a task: a score with a subtask count
Grades == {<<8, 6>>}
ResponseEntries == {Entry(i, g[1], g[2]) : i \in TaskIds \cup {UnknownId}, g \in Grades}

\* mainResult after the repair of lines 493-515, as JSON.parse takes it: an
\* array of entries, a JSON value that is no array, or no JSON at all
Responses ==
    {[kind |-> "array", entries |-> es] : es \in SeqsUpTo(ResponseEntries, MaxResp)}
    \cup {[kind |-> "notArray", entries |-> <<>>], [kind |-> "notJSON", entries |-> <<>>]}

\* what a response may say when it ignores the bands the prompt asks for
UncheckedGrades == Grades \cup {<<2, 9>>}
UncheckedResponses ==
    {[kind |-> "array", entries |-> es] :
        es \in SeqsUpTo({Entry(i, g[1], g[2]) : i \in TaskIds, g \in UncheckedGrades},
                        MaxResp)}
    \cup {[kind |-> "notArray", entries |-> <<>>], [kind |-> "notJSON", entries |-> <<>>]}

Meta(analyzed, total, count) ==
    [tasksAnalyzed |-> analyzed, totalTasks |-> total, analysisCount |-> count]

Report(meta, entries) == [meta |-> meta, complexityAnalysis |-> entries]

NoReport == Report(Meta(Null, Null, Null), <<>>)

\* the report file: absent, present but unreadable, or holding a report
AbsentFile == [state |-> "absent", report |-> NoReport]
UnreadableFile == [state |-> "unreadable", report |-> NoReport]
FileWith(r) == [state |-> "report", report |-> r]

\* lines 544-577: a default entry for every selected task the response left out
Reconcile(tasks, parsed) ==
    LET taskIds == MapIds(tasks)
        analysisTaskIds == MapTaskIds(parsed)
        Missing(id) == id \notin Range(analysisTaskIds)
        missingTaskIds == SelectSeq(taskIds, Missing)
    IN  parsed \o [i \in DOMAIN missingTaskIds |-> DefaultEntry(missingTaskIds[i])]

\* Merge that appends the new entries to all the existing ones
MergeKeepExisting(existing, analysis) ==
    IF existing.present THEN existing.report.complexityAnalysis \o analysis ELSE analysis

\* Merge that drops the existing entries
MergeDropExisting(existing, analysis) == analysis

\* lines 579-607: existing entries not analyzed in this run, then the new ones
Merge(existing, analysis) ==
    IF existing.present
    THEN LET analyzedTaskIds == Range(MapTaskIds(analysis))
             NotAnalyzed(item) == item.taskId \notin analyzedTaskIds
         IN  SelectSeq(existing.report.complexityAnalysis, NotAnalyzed) \o analysis
    ELSE analysis

\* a report an earlier run left in the report file
PriorReport == Report(Meta(2, 2, 2), <<Entry(1, 3, 2), Entry(2, 3, 2)>>)

\* the callers' options: an id list or a range (an id list that parses to some
\* id takes precedence over a range, lines 249 and 279)
FromTos == {Null} \cup TaskIds
Options ==
    {[id |-> ids, from |-> Null, to |-> Null, mcp |-> m] :
        ids \in IdOptions, m \in BOOLEAN}
    \cup {[id |-> ids, from |-> f, to |-> t, mcp |-> m] :
        ids \in {NoIdOption}, f \in FromTos, t \in FromTos, m \in BOOLEAN}

NoWarning == [kind |-> "none", ids |-> <<>>]

\* lines 258-276 and 294-300: the warnings, printed when outputFormat is 'text'
SelectionWarning(filtered, o) ==
    LET specificIds == SpecificIds(o)
        foundIds == MapIds(filtered)
        NotFound(id) == id \notin Range(foundIds)
    IN  IF o.mcp THEN NoWarning
        ELSE IF HasSpecificIds(o) /\ Len(specificIds) > 0
        THEN IF Len(filtered) = 0 THEN [kind |-> "noActiveWithIds", ids |-> specificIds]
             ELSE IF Len(filtered) < Len(specificIds)
             THEN [kind |-> "someNotFound", ids |-> SelectSeq(specificIds, NotFound)]
             ELSE NoWarning
        ELSE IF (FromId(o) # Null \/ ToId(o) # Null) /\ Len(filtered) = 0
        THEN [kind |-> "noneInRange", ids |-> <<>>]
        ELSE NoWarning

NoExisting == [present |-> FALSE, report |-> NoReport]

\* a rendered prompt: the template's text around JSON.stringify(tasksData.tasks)
Prompt(template, tasksData) == [template |-> template, tasksString |-> tasksData.tasks]
NoPrompt == [template |-> "none", tasksString |-> <<>>]

\* lines 24-156: the prompt text written out in analyze-task-complexity.js
generateInternalComplexityAnalysisPrompt(tasksData) == Prompt("internal", tasksData)
NoResult == [kind |-> "none", report |-> NoReport, error |-> "none"]

Procs == {1, 2}
Terminal == {"DONE", "DONE_NOCHANGE", "FAILED"}

IdleRun ==
    [pc |-> "IDLE", opts |-> [id |-> NoIdOption, from |-> Null, to |-> Null, mcp |-> FALSE],
     tasks |-> <<>>, originalTaskCount |-> 0, warning |-> NoWarning,
     existing |-> NoExisting, prompt |-> NoPrompt,
     analysis |-> <<>>, genCalls |-> 0, gen |-> "none",
     writes |-> 0,
     result |-> NoResult, before |-> AbsentFile]

\* lines 724-736: the outer catch exits the process for the CLI and rethrows for MCP
Failure(o, err) ==
    [kind |-> IF o.mcp THEN "thrown" ELSE "exit", report |-> NoReport, error |-> err]

Returned(r) == [kind |-> "returned", report |-> r, error |-> "none"]

\* a caller invokes analyzeTaskComplexity(options, context)
Start(p, o) ==
    /\ run[p].pc \in Terminal \cup {"IDLE"}
    /\ runsLeft > 0
    /\ runsLeft' = runsLeft - 1
    /\ run' = [run EXCEPT ![p] = [IdleRun EXCEPT !.pc = "LOAD_INPUT", !.opts = o,
                                                  !.before = reportFile]]
    /\ UNCHANGED <<tasksFile, reportFile>>

\* between invocations the task store changes the status of a task
SetTaskStatus(i, st) ==
    /\ \A p \in Procs : run[p].pc \in Terminal \cup {"IDLE"}
    /\ runsLeft > 0
    /\ tasksFile.readable
    /\ i \in DOMAIN tasksFile.tasks
    /\ tasksFile.tasks[i].status # st
    /\ tasksFile' = [tasksFile EXCEPT !.tasks[i].status = st]
    /\ run' = [p \in Procs |-> IdleRun]
    /\ UNCHANGED <<reportFile, runsLeft>>

\* lines 231-308: read the tasks file and select the tasks
LoadInput(p) ==
    /\ run[p].pc = "LOAD_INPUT"
    /\ IF ~tasksFile.readable \/ Len(tasksFile.tasks) = 0
       THEN run' = [run EXCEPT ![p].pc = "FAILED",
                               ![p].result = Failure(run[p].opts, "No tasks found")]
       ELSE LET filtered == SelectTasks(tasksFile.tasks, run[p].opts)
            IN  run' = [run EXCEPT ![p].pc = "LOAD_EXISTING_REPORT",
                                   ![p].tasks = filtered,
                                   ![p].originalTaskCount = Len(tasksFile.tasks),
                                   ![p].warning = SelectionWarning(filtered, run[p].opts)]
    /\ UNCHANGED <<tasksFile, reportFile, runsLeft>>

\* LoadExistingReport without the try/catch around the read
LoadExistingReportThrows(p) ==
    /\ run[p].pc = "LOAD_EXISTING_REPORT"
    /\ run' = IF reportFile.state = "unreadable"
              THEN [run EXCEPT ![p].pc = "FAILED",
                               ![p].result = Failure(run[p].opts, "read failed")]
              ELSE [run EXCEPT ![p].pc = "CHECK_EMPTY",
                               ![p].existing = IF reportFile.state = "report"
                                               THEN [present |-> TRUE,
                                                     report |-> reportFile.report]
                                               ELSE NoExisting]
    /\ UNCHANGED <<tasksFile, reportFile, runsLeft>>

\* lines 334-364: read the report file if there is one; a failed read leaves null
LoadExistingReport(p) ==
    /\ run[p].pc = "LOAD_EXISTING_REPORT"
    /\ run' = [run EXCEPT ![p].pc = "CHECK_EMPTY",
                           ![p].existing = IF reportFile.state = "report"
                                           THEN [present |-> TRUE, report |-> reportFile.report]
                                           ELSE NoExisting]
    /\ UNCHANGED <<tasksFile, reportFile, runsLeft>>

\* lines 366-384: nothing selected under an id or range option, and a report exists
ShortCircuitEmpty(p) ==
    /\ run[p].pc = "CHECK_EMPTY"
    /\ Len(run[p].tasks) = 0
    /\ run[p].existing.present /\ FilterSupplied(run[p].opts)
    /\ run' = [run EXCEPT ![p].pc = "DONE_NOCHANGE",
                           ![p].result = Returned(run[p].existing.report)]
    /\ UNCHANGED <<tasksFile, reportFile, runsLeft>>

\* lines 386-448: nothing selected otherwise: an empty report is written
WriteEmptyReport(p) ==
    /\ run[p].pc = "CHECK_EMPTY"
    /\ Len(run[p].tasks) = 0
    /\ ~(run[p].existing.present /\ FilterSupplied(run[p].opts))
    /\ LET emptyReport ==
               Report(Meta(0, Null, Null),
                      IF run[p].existing.present
                      THEN run[p].existing.report.complexityAnalysis ELSE <<>>)
       IN  /\ reportFile' = FileWith(emptyReport)
           /\ run' = [run EXCEPT ![p].pc = "DONE",
                                  ![p].writes = run[p].writes + 1,
                                  ![p].result = Returned(emptyReport)]
    /\ UNCHANGED <<tasksFile, runsLeft>>

\* CallGenerate that does not look at the number of selected tasks
CallGenerateUnguarded(p) ==
    /\ run[p].pc = "CHECK_EMPTY"
    /\ run' = [run EXCEPT ![p].pc = "GENERATE",
                           ![p].prompt = generateInternalComplexityAnalysisPrompt(
                                             [tasks |-> run[p].tasks]),
                           ![p].genCalls = run[p].genCalls + 1]
    /\ UNCHANGED <<tasksFile, reportFile, runsLeft>>

\* lines 451-477: compile the prompt and call generateTextService
CallGenerate(p) ==
    /\ run[p].pc = "CHECK_EMPTY"
    /\ Len(run[p].tasks) > 0
    /\ run' = [run EXCEPT ![p].pc = "GENERATE",
                           ![p].prompt = generateInternalComplexityAnalysisPrompt(
                                             [tasks |-> run[p].tasks]),
                           ![p].genCalls = run[p].genCalls + 1]
    /\ UNCHANGED <<tasksFile, reportFile, runsLeft>>

\* GenerateRejects that calls generateTextService again
GenerateRejectsRetries(p) ==
    /\ run[p].pc = "GENERATE"
    /\ run[p].genCalls <= MaxRuns
    /\ run' = [run EXCEPT ![p].genCalls = run[p].genCalls + 1]
    /\ UNCHANGED <<tasksFile, reportFile, runsLeft>>

\* lines 704-736: generateTextService rejects
GenerateRejects(p) ==
    /\ run[p].pc = "GENERATE"
    /\ run' = [run EXCEPT ![p].pc = "FAILED", ![p].gen = "rejected",
                           ![p].result = Failure(run[p].opts, "generation failed")]
    /\ UNCHANGED <<tasksFile, reportFile, runsLeft>>

\* lines 479-703: generateTextService resolves: parse, reconcile, merge, persist
GenerateResolves(p, resp) ==
    /\ run[p].pc = "GENERATE"
    /\ IF resp.kind = "notJSON"
       THEN /\ run' = [run EXCEPT ![p].pc = "FAILED", ![p].gen = resp.kind,
                                   ![p].result = Failure(run[p].opts, "SyntaxError")]
            /\ UNCHANGED reportFile
       ELSE IF resp.kind = "notArray"
       THEN /\ run' = [run EXCEPT ![p].pc = "FAILED", ![p].gen = resp.kind,
                                   ![p].result = Failure(run[p].opts, "TypeError")]
            /\ UNCHANGED reportFile
       ELSE LET complexityAnalysis == Reconcile(run[p].tasks, resp.entries)
                finalComplexityAnalysis == Merge(run[p].existing, complexityAnalysis)
                report == Report(Meta(Len(run[p].tasks), run[p].originalTaskCount,
                                      Len(finalComplexityAnalysis)),
                                 finalComplexityAnalysis)
            IN  /\ reportFile' = FileWith(report)
                /\ run' = [run EXCEPT ![p].pc = "DONE", ![p].gen = resp.kind,
                                       ![p].analysis = complexityAnalysis,
                                       ![p].writes = run[p].writes + 1,
                                       ![p].result = Returned(report)]
    /\ UNCHANGED <<tasksFile, runsLeft>>

\* the entries of the report file (none when absent or unreadable)
Persisted(file) == IF file.state = "report" THEN file.report.complexityAnalysis ELSE <<>>

\* lines 334-364: what a run takes as existingReport from the report file
ExistingOf(file) ==
    IF file.state = "report" THEN [present |-> TRUE, report |-> file.report] ELSE NoExisting

\* lines 579-622: the report file after a run whose reconciled entries are
\* analysis, over selected of total tasks
MergeStep(file, analysis, selected, total) ==
    LET finalComplexityAnalysis == Merge(ExistingOf(file), analysis)
    IN  FileWith(Report(Meta(selected, total, Len(finalComplexityAnalysis)),
                        finalComplexityAnalysis))

\* the entries a report file may hold from earlier runs, and the new entries
\* of a run: a prior entry differs from every new entry for the same task
PriorEntries == {Entry(i, 3, 2) : i \in TaskIds}
NewEntries == {Entry(i, g[1], g[2]) : i \in TaskIds, g \in Grades \cup {<<5, 3>>}}
BatchEntries == {Entry(i, g[1], g[2]) : i \in TaskIds, g \in Grades}

PriorFiles ==
    {AbsentFile} \cup
    {FileWith(Report(Meta(Len(es), NumTasks, Len(es)), es)) :
        es \in SeqsUpTo(PriorEntries, MaxResp)}

NoMergeInput == [prior |-> AbsentFile, a |-> <<>>, b |-> <<>>]
NoMergeResult ==
    [called |-> FALSE, a |-> AbsentFile, aa |-> AbsentFile, ab |-> AbsentFile,
     ba |-> AbsentFile, self |-> AbsentFile]

\* runs with the new entries a and b against the report file: a, a again,
\* a then b, b then a, and a run whose new entries are the file's own
MergeBatches ==
    /\ ~mergeResult.called
    /\ LET prior == mergeInput.prior
           a == mergeInput.a
           b == mergeInput.b
           After(file, batch) == MergeStep(file, batch, Len(batch), NumTasks)
       IN  mergeResult' =
               [called |-> TRUE,
                a      |-> After(prior, a),
                aa     |-> After(After(prior, a), a),
                ab     |-> After(After(prior, a), b),
                ba     |-> After(After(prior, b), a),
                self   |-> After(prior, Persisted(prior))]
    /\ UNCHANGED mergeInput

-----------------------------------------------------------------------------
(* Complexity modes: src/constants/complexity-modes.js, src/prompts/index.js *)

COMPLEXITY_MODE_OPTIONS == <<"standard", "balanced", "advanced">>
DEFAULT_COMPLEXITY_MODE == "balanced"

\* the values a caller may pass as mode: null and undefined are values of their own
NullMode == "<null>"
UndefinedMode == "<undefined>"
ModeValues ==
    {"standard", "balanced", "advanced", "Standard", "invalid-mode", "",
     NullMode, UndefinedMode}

isValidComplexityMode(mode) == mode \in Range(COMPLEXITY_MODE_OPTIONS)

\* getValidComplexityMode that falls back to the first option
getValidComplexityModeFirstOption(mode) ==
    IF isValidComplexityMode(mode) THEN mode ELSE COMPLEXITY_MODE_OPTIONS[1]

getValidComplexityMode(mode) ==
    IF isValidComplexityMode(mode) THEN mode ELSE DEFAULT_COMPLEXITY_MODE

generateStandardPrompt(tasksData) == Prompt("standard", tasksData)
generateBalancedPrompt(tasksData) == Prompt("balanced", tasksData)
generateAdvancedPrompt(tasksData) == Prompt("advanced", tasksData)

\* mode || DEFAULT_COMPLEXITY_MODE: '', null and undefined are falsy
Falsy(mode) == mode \in {"", NullMode, UndefinedMode}

generateComplexityAnalysisPrompt(tasksData, mode) ==
    LET given == IF mode = UndefinedMode THEN NullMode ELSE mode      \* mode = null
        validMode == getValidComplexityMode(IF Falsy(given) THEN DEFAULT_COMPLEXITY_MODE
                                            ELSE given)
    IN  CASE validMode = "standard" -> generateStandardPrompt(tasksData)
          [] validMode = "balanced" -> generateBalancedPrompt(tasksData)
          [] validMode = "advanced" -> generateAdvancedPrompt(tasksData)
          [] OTHER -> generateBalancedPrompt(tasksData)

\* tasksData: the ids of the tasks handed to the prompt
TasksDatas == {[tasks |-> ts] : ts \in SeqsUpTo(TaskIds, NumTasks)}

NoModeInput == [mode |-> DEFAULT_COMPLEXITY_MODE, tasksData |-> [tasks |-> <<>>]]
NoModeResult == [called |-> "none", mode |-> DEFAULT_COMPLEXITY_MODE, prompt |-> NoPrompt]

\* global.complexityMode of the configuration; UndefinedMode when not configured
ConfiguredModes == {"standard", "balanced", "advanced", UndefinedMode}
DefaultConfig == [complexityMode |-> DEFAULT_COMPLEXITY_MODE]

\* a behaviour applies one of the two functions to its arguments, once
GetValidComplexityMode ==
    /\ modeResult.called = "none"
    /\ modeResult' = [NoModeResult EXCEPT !.called = "getValidComplexityMode",
                                          !.mode = getValidComplexityMode(modeInput.mode)]
    /\ UNCHANGED modeInput

GenerateComplexityAnalysisPrompt ==
    /\ modeResult.called = "none"
    /\ modeResult' =
           [NoModeResult EXCEPT
               !.called = "generateComplexityAnalysisPrompt",
               !.prompt = generateComplexityAnalysisPrompt(modeInput.tasksData,
                                                           modeInput.mode)]
    /\ UNCHANGED modeInput

-----------------------------------------------------------------------------
(* Response repair: scripts/modules/task-manager/analyze-task-complexity.js *)

\* a generated text is a sequence of tokens: the fence (three backticks), the word json, the
\* brackets, an entry object (a JSON value), a word of prose, and white space
Fence == "fence"
TextTokens == {Fence, "json", "[", "]", "{e}", "prose", " "}
WhiteSpace == {" "}

RECURSIVE TrimStart(_)
TrimStart(s) ==
    IF s # <<>> /\ s[1] \in WhiteSpace THEN TrimStart(Tail(s)) ELSE s

RECURSIVE TrimEnd(_)
TrimEnd(s) ==
    IF s # <<>> /\ s[Len(s)] \in WhiteSpace THEN TrimEnd(SubSeq(s, 1, Len(s) - 1)) ELSE s

\* String.prototype.trim
Trim(s) == TrimEnd(TrimStart(s))

\* String.prototype.lastIndexOf, 0-based, -1 when absent
LastIndexOf(s, x) ==
    IF \E i \in DOMAIN s : s[i] = x
    THEN (CHOOSE i \in DOMAIN s : s[i] = x /\ \A j \in (i + 1)..Len(s) : s[j] # x) - 1
    ELSE -1

NoMatch == [found |-> FALSE, group |-> <<>>]

\* s.match(/FENCE(?:json)?\s*([\s\S]*?)\s*FENCE/): the leftmost fence that has a
\* fence after it opens the match, the word json and white space after it are
\* consumed, and the lazy group ends before the white space in front of the
\* next fence
codeBlockMatch(s) ==
    LET opens == {i \in DOMAIN s : s[i] = Fence /\ \E j \in (i + 1)..Len(s) : s[j] = Fence}
    IN  IF opens = {} THEN NoMatch
        ELSE LET open == CHOOSE i \in opens : \A k \in opens : i <= k
                 close == CHOOSE j \in (open + 1)..Len(s) :
                              s[j] = Fence /\ \A k \in (open + 1)..(j - 1) : s[k] # Fence
                 from == IF s[open + 1] = "json" THEN open + 2 ELSE open + 1
             IN  [found |-> TRUE, group |-> TrimEnd(TrimStart(SubSeq(s, from, close - 1)))]

\* CleanResponse that looks for the brackets before the fenced block
CleanResponseBracketsFirst(text) ==
    LET trimmed == Trim(text)
        match == codeBlockMatch(trimmed)
        firstBracket == IndexOf(trimmed, "[")
        lastBracket == LastIndexOf(trimmed, "]")
    IN  IF firstBracket # -1 /\ lastBracket > firstBracket
        THEN SubSeq(trimmed, firstBracket + 1, lastBracket + 1)
        ELSE IF match.found THEN Trim(match.group)
        ELSE trimmed

\* lines 493-515: cleanedResponse, the text handed to JSON.parse
CleanResponse(text) ==
    LET trimmed == Trim(text)
        match == codeBlockMatch(trimmed)
        firstBracket == IndexOf(trimmed, "[")
        lastBracket == LastIndexOf(trimmed, "]")
    IN  IF match.found THEN Trim(match.group)
        ELSE IF firstBracket # -1 /\ lastBracket > firstBracket
        THEN SubSeq(trimmed, firstBracket + 1, lastBracket + 1)
        ELSE trimmed

\* a JSON value over the tokens: an entry object, or an array of no or one value
RECURSIVE IsJSONValue(_)
IsJSONValue(s) ==
    \/ s = <<"{e}">>
    \/ /\ Len(s) >= 2 /\ s[1] = "[" /\ s[Len(s)] = "]"
       /\ LET inner == Trim(SubSeq(s, 2, Len(s) - 1))
          IN  inner = <<>> \/ IsJSONValue(inner)

\* JSON.parse (line 527) and the use of its value as an array (line 545)
ParseKind(s) ==
    IF ~IsJSONValue(Trim(s)) THEN "notJSON"
    ELSE IF Trim(s)[1] = "[" THEN "array"
    ELSE "notArray"

NoParseResult == [called |-> FALSE, cleanedResponse |-> <<>>, kind |-> "none", error |-> "none"]

\* lines 491-542: repair the generated text and parse it
ParseResponseText ==
    /\ ~parseResult.called
    /\ LET cleanedResponse == CleanResponse(mainResult)
           kind == ParseKind(cleanedResponse)
       IN  parseResult' = [called |-> TRUE, cleanedResponse |-> cleanedResponse,
                           kind |-> kind,
                           error |-> CASE kind = "notJSON" -> "SyntaxError"
                                       [] kind = "notArray" -> "TypeError"
                                       [] OTHER -> "none"]
    /\ UNCHANGED mainResult

-----------------------------------------------------------------------------
(* generateClaudeCodeText: src/ai-providers/claude-code.js *)

\* the timeout the documentation gives (30 seconds), in ticks of ten seconds
DefaultTimeout == 3

NoModelId == "<undefined>"
ModelIds == {NoModelId, "default", "claude-3-opus-20240229", "my-model"}

modelMap ==
    [m \in {"claude-3-opus-20240229", "claude-3-5-sonnet-20241022",
            "claude-3-5-haiku-20241022", "claude-sonnet-4-20250514",
            "claude-3-7-sonnet-20250219"} |->
        CASE m = "claude-3-opus-20240229" -> "opus"
          [] m = "claude-3-5-haiku-20241022" -> "haiku"
          [] OTHER -> "sonnet"]

\* the command line built for a model id, as its words
Command(modelId) ==
    <<"claude", "--print", "--output-format", "json">>
    \o (IF modelId # NoModelId /\ modelId # "default"
        THEN <<"--model", IF modelId \in DOMAIN modelMap THEN modelMap[modelId] ELSE modelId>>
        ELSE <<>>)

Message(role, content) == [role |-> role, content |-> content]
MessageLists ==
    {<<Message("user", "Test")>>,
     <<Message("system", "Sys"), Message("user", "Test")>>,
     <<Message("system", ""), Message("user", "A"), Message("user", "B")>>}

RECURSIVE JoinUserMessages(_)
JoinUserMessages(msgs) ==
    IF msgs = <<>> THEN <<>>
    ELSE IF Len(msgs) = 1 THEN <<msgs[1].content>>
    ELSE <<msgs[1].content, "\n\n">> \o JoinUserMessages(Tail(msgs))

formatMessagesForCLI(messages) ==
    LET systems == SelectSeq(messages, LAMBDA m : m.role = "system")
        userMessages == SelectSeq(messages, LAMBDA m : m.role = "user")
    IN  (IF systems # <<>> /\ systems[1].content # ""
         THEN <<"System: ", systems[1].content, "\n\n">>
         ELSE <<>>)
        \o JoinUserMessages(userMessages)

\* what the claude process may print: a whole result, a whole error report, or a fragment
StdoutChunks == {"{result}", "{is_error}", "frag"}
StderrChunks == {"warning"}

\* JSON.parse(stdout) followed by the is_error test
ParseResponse(stdout) ==
    IF stdout = <<"{result}">> THEN [kind |-> "resolved", error |-> "none"]
    ELSE IF stdout = <<"{is_error}">> THEN [kind |-> "rejected", error |-> "Claude Code CLI error"]
    ELSE [kind |-> "rejected", error |-> "SyntaxError"]

ExitCodes == {0, 1}
SpawnErrors == {"ENOENT", "EACCES"}

IdleCall ==
    [pc |-> "idle", args |-> <<>>, stdin |-> <<>>, child |-> "none",
     stdout |-> <<>>, stderr |-> <<>>, clock |-> 0, error |-> "none"]

\* generateClaudeCodeText up to its await: the process is spawned and the prompt
\* is written to its stdin
GenerateClaudeCodeText(modelId, messages) ==
    /\ claude.pc = "idle"
    /\ claude' = [claude EXCEPT !.pc = "pending",
                                !.args = Tail(Command(modelId)),
                                !.stdin = formatMessagesForCLI(messages),
                                !.child = "running"]

\* child.stdout.on('data')
StdoutData(chunk) ==
    /\ claude.child = "running"
    /\ Len(claude.stdout) < MaxChunks
    /\ claude' = [claude EXCEPT !.stdout = Append(@, chunk)]

\* child.stderr.on('data')
StderrData(chunk) ==
    /\ claude.child = "running"
    /\ Len(claude.stderr) < MaxChunks
    /\ claude' = [claude EXCEPT !.stderr = Append(@, chunk)]

\* child.on('error'): the promise rejects and the catch block rethrows
ChildError(code) ==
    /\ claude.child = "running"
    /\ claude' = [claude EXCEPT !.child = "errored",
                                !.pc = "rejected",
                                !.error = IF code = "ENOENT"
                                          THEN "Claude Code CLI not found"
                                          ELSE code]

\* child.on('close'): a non-zero code rejects, code 0 resolves and the output is parsed
ChildClose(code) ==
    /\ claude.child = "running"
    /\ claude' = [claude EXCEPT !.child = "closed",
                                !.pc = IF code # 0 THEN "rejected"
                                       ELSE ParseResponse(claude.stdout).kind,
                                !.error = IF code # 0 THEN "Claude Code CLI exited with code"
                                          ELSE ParseResponse(claude.stdout).error]

\* ten seconds pass while the call is pending; no timer is armed by the call
Tick ==
    /\ claude.pc = "pending"
    /\ claude.clock < MaxClock
    /\ claude' = [claude EXCEPT !.clock = @ + 1]

-----------------------------------------------------------------------------
(* Specifications *)

\* parseTaskId applied to every string of at most MaxIdLen characters
InitId ==
    /\ idInput \in SeqsUpTo(Chars, MaxIdLen)
    /\ idResult = NoIdResult
    /\ graphTasks = EmptyCollection(0)
    /\ cyclesResult = NoCycles
    /\ depResult = NoDep
    /\ tasksFile = [readable |-> FALSE, tasks |-> <<>>]
    /\ reportFile = AbsentFile
    /\ run = [p \in Procs |-> IdleRun]
    /\ runsLeft = 0
    /\ mergeInput = NoMergeInput
    /\ mergeResult = NoMergeResult
    /\ modeInput = NoModeInput
    /\ modeResult = NoModeResult
    /\ parseResult = NoParseResult
    /\ mainResult = <<>>
    /\ claude = IdleCall
    /\ config = DefaultConfig

NextId == ParseId /\ UNCHANGED <<graphVars, runVars, mergeVars, modeVars, configVars, claudeVars, repairVars>>

SpecId == InitId /\ [][NextId]_vars

\* the validator applied to every collection within the bounds
InitGraph ==
    /\ \E n \in 0..NumNodes, k \in 0..MaxEdges :
          \E edges \in [1..k -> (1..n) \X DepIds] : graphTasks = Collection(n, edges)
    /\ cyclesResult = NoCycles
    /\ depResult = NoDep
    /\ idInput = <<>>
    /\ idResult = NoIdResult
    /\ tasksFile = [readable |-> FALSE, tasks |-> <<>>]
    /\ reportFile = AbsentFile
    /\ run = [p \in Procs |-> IdleRun]
    /\ runsLeft = 0
    /\ mergeInput = NoMergeInput
    /\ mergeResult = NoMergeResult
    /\ modeInput = NoModeInput
    /\ modeResult = NoModeResult
    /\ parseResult = NoParseResult
    /\ mainResult = <<>>
    /\ claude = IdleCall
    /\ config = DefaultConfig

NextGraph ==
    \/ FindCircular /\ UNCHANGED <<idVars, runVars, mergeVars, modeVars, configVars, claudeVars, repairVars>>
    \/ HasDependency /\ UNCHANGED <<idVars, runVars, mergeVars, modeVars, configVars, claudeVars, repairVars>>

SpecGraph == InitGraph /\ [][NextGraph]_vars

\* runs of analyzeTaskComplexity one after the other against one report file
Init ==
    /\ tasksFile \in TasksFiles
    /\ reportFile \in {AbsentFile, UnreadableFile}
    /\ run = [p \in Procs |-> IdleRun]
    /\ runsLeft = MaxRuns
    /\ idInput = <<>>
    /\ idResult = NoIdResult
    /\ graphTasks = EmptyCollection(0)
    /\ cyclesResult = NoCycles
    /\ depResult = NoDep
    /\ mergeInput = NoMergeInput
    /\ mergeResult = NoMergeResult
    /\ modeInput = NoModeInput
    /\ modeResult = NoModeResult
    /\ parseResult = NoParseResult
    /\ mainResult = <<>>
    /\ claude = IdleCall
    /\ config = DefaultConfig

Main == 1

Next ==
    \/ \E o \in Options : Start(Main, o) /\ UNCHANGED <<idVars, graphVars, mergeVars, modeVars, configVars, claudeVars, repairVars>>
    \/ \E i \in TaskIds, st \in Statuses :
          SetTaskStatus(i, st) /\ UNCHANGED <<idVars, graphVars, mergeVars, modeVars, configVars, claudeVars, repairVars>>
    \/ LoadInput(Main) /\ UNCHANGED <<idVars, graphVars, mergeVars, modeVars, configVars, claudeVars, repairVars>>
    \/ LoadExistingReport(Main) /\ UNCHANGED <<idVars, graphVars, mergeVars, modeVars, configVars, claudeVars, repairVars>>
    \/ ShortCircuitEmpty(Main) /\ UNCHANGED <<idVars, graphVars, mergeVars, modeVars, configVars, claudeVars, repairVars>>
    \/ WriteEmptyReport(Main) /\ UNCHANGED <<idVars, graphVars, mergeVars, modeVars, configVars, claudeVars, repairVars>>
    \/ CallGenerate(Main) /\ UNCHANGED <<idVars, graphVars, mergeVars, modeVars, configVars, claudeVars, repairVars>>
    \/ GenerateRejects(Main) /\ UNCHANGED <<idVars, graphVars, mergeVars, modeVars, configVars, claudeVars, repairVars>>
    \/ \E resp \in Responses : GenerateResolves(Main, resp) /\ UNCHANGED <<idVars, graphVars, mergeVars, modeVars, configVars, claudeVars, repairVars>>

Spec == Init /\ [][Next]_vars

\* one run of analyzeTaskComplexity against any tasks file and report file
InitRun ==
    /\ tasksFile \in TasksFilesOver(RunStatuses)
    /\ reportFile \in {AbsentFile, UnreadableFile, FileWith(PriorReport)}
    /\ run = [p \in Procs |-> IdleRun]
    /\ runsLeft = 1
    /\ idInput = <<>>
    /\ idResult = NoIdResult
    /\ graphTasks = EmptyCollection(0)
    /\ cyclesResult = NoCycles
    /\ depResult = NoDep
    /\ mergeInput = NoMergeInput
    /\ mergeResult = NoMergeResult
    /\ modeInput = NoModeInput
    /\ modeResult = NoModeResult
    /\ parseResult = NoParseResult
    /\ mainResult = <<>>
    /\ claude = IdleCall
    /\ config = DefaultConfig

SpecRun == InitRun /\ [][Next]_vars

\* two invocations against the same tasks file and report file, interleaved at
\* their file accesses and at the generation await
ConcurrentOptions ==
    {[id |-> ids, from |-> Null, to |-> Null, mcp |-> TRUE] :
        ids \in {NoIdOption, <<"1">>, <<"2">>, <<"9">>}}

InitConcurrent ==
    /\ tasksFile = [readable |-> TRUE,
                    tasks |-> [i \in 1..NumTasks |-> [id |-> i, status |-> "pending"]]]
    /\ reportFile \in {AbsentFile, FileWith(PriorReport)}
    /\ run = [p \in Procs |-> IdleRun]
    /\ runsLeft = 2
    /\ idInput = <<>>
    /\ idResult = NoIdResult
    /\ graphTasks = EmptyCollection(0)
    /\ cyclesResult = NoCycles
    /\ depResult = NoDep
    /\ mergeInput = NoMergeInput
    /\ mergeResult = NoMergeResult
    /\ modeInput = NoModeInput
    /\ modeResult = NoModeResult
    /\ parseResult = NoParseResult
    /\ mainResult = <<>>
    /\ claude = IdleCall
    /\ config = DefaultConfig

NextConcurrent ==
    \/ \E p \in Procs, o \in ConcurrentOptions : Start(p, o) /\ UNCHANGED <<idVars, graphVars, mergeVars, modeVars, configVars, claudeVars, repairVars>>
    \/ \E p \in Procs : LoadInput(p) /\ UNCHANGED <<idVars, graphVars, mergeVars, modeVars, configVars, claudeVars, repairVars>>
    \/ \E p \in Procs : LoadExistingReport(p) /\ UNCHANGED <<idVars, graphVars, mergeVars, modeVars, configVars, claudeVars, repairVars>>
    \/ \E p \in Procs : ShortCircuitEmpty(p) /\ UNCHANGED <<idVars, graphVars, mergeVars, modeVars, configVars, claudeVars, repairVars>>
    \/ \E p \in Procs : WriteEmptyReport(p) /\ UNCHANGED <<idVars, graphVars, mergeVars, modeVars, configVars, claudeVars, repairVars>>
    \/ \E p \in Procs : CallGenerate(p) /\ UNCHANGED <<idVars, graphVars, mergeVars, modeVars, configVars, claudeVars, repairVars>>
    \/ \E p \in Procs : GenerateRejects(p) /\ UNCHANGED <<idVars, graphVars, mergeVars, modeVars, configVars, claudeVars, repairVars>>
    \/ \E p \in Procs, resp \in Responses : GenerateResolves(p, resp) /\ UNCHANGED <<idVars, graphVars, mergeVars, modeVars, configVars, claudeVars, repairVars>>

SpecConcurrent == InitConcurrent /\ [][NextConcurrent]_vars

\* the repair and parse of one generated text
InitRepair ==
    /\ mainResult \in SeqsUpTo(TextTokens, MaxTextLen)
    /\ parseResult = NoParseResult
    /\ idInput = <<>>
    /\ idResult = NoIdResult
    /\ graphTasks = EmptyCollection(0)
    /\ cyclesResult = NoCycles
    /\ depResult = NoDep
    /\ tasksFile = [readable |-> FALSE, tasks |-> <<>>]
    /\ reportFile = AbsentFile
    /\ run = [p \in Procs |-> IdleRun]
    /\ runsLeft = 0
    /\ mergeInput = NoMergeInput
    /\ mergeResult = NoMergeResult
    /\ modeInput = NoModeInput
    /\ modeResult = NoModeResult
    /\ claude = IdleCall
    /\ config = DefaultConfig

NextRepair == ParseResponseText /\ UNCHANGED <<idVars, graphVars, runVars, mergeVars, modeVars, configVars, claudeVars>>

SpecRepair == InitRepair /\ [][NextRepair]_vars

\* one call of generateClaudeCodeText
InitClaude ==
    /\ claude = IdleCall
    /\ idInput = <<>>
    /\ idResult = NoIdResult
    /\ graphTasks = EmptyCollection(0)
    /\ cyclesResult = NoCycles
    /\ depResult = NoDep
    /\ tasksFile = [readable |-> FALSE, tasks |-> <<>>]
    /\ reportFile = AbsentFile
    /\ run = [p \in Procs |-> IdleRun]
    /\ runsLeft = 0
    /\ mergeInput = NoMergeInput
    /\ mergeResult = NoMergeResult
    /\ modeInput = NoModeInput
    /\ modeResult = NoModeResult
    /\ parseResult = NoParseResult
    /\ mainResult = <<>>
    /\ config = DefaultConfig

NextClaude ==
    \/ \E m \in ModelIds, msgs \in MessageLists :
          GenerateClaudeCodeText(m, msgs) /\ UNCHANGED <<idVars, graphVars, runVars, mergeVars, modeVars, configVars, repairVars>>
    \/ \E c \in StdoutChunks : StdoutData(c) /\ UNCHANGED <<idVars, graphVars, runVars, mergeVars, modeVars, configVars, repairVars>>
    \/ \E c \in StderrChunks : StderrData(c) /\ UNCHANGED <<idVars, graphVars, runVars, mergeVars, modeVars, configVars, repairVars>>
    \/ \E e \in SpawnErrors : ChildError(e) /\ UNCHANGED <<idVars, graphVars, runVars, mergeVars, modeVars, configVars, repairVars>>
    \/ \E c \in ExitCodes : ChildClose(c) /\ UNCHANGED <<idVars, graphVars, runVars, mergeVars, modeVars, configVars, repairVars>>
    \/ Tick /\ UNCHANGED <<idVars, graphVars, runVars, mergeVars, modeVars, configVars, repairVars>>

SpecClaude == InitClaude /\ [][NextClaude]_vars

\* one run whose response may grade a task in any way
InitUnchecked ==
    /\ tasksFile \in TasksFiles
    /\ reportFile \in {AbsentFile, FileWith(PriorReport)}
    /\ run = [p \in Procs |-> IdleRun]
    /\ runsLeft = 1
    /\ idInput = <<>>
    /\ idResult = NoIdResult
    /\ graphTasks = EmptyCollection(0)
    /\ cyclesResult = NoCycles
    /\ depResult = NoDep
    /\ mergeInput = NoMergeInput
    /\ mergeResult = NoMergeResult
    /\ modeInput = NoModeInput
    /\ modeResult = NoModeResult
    /\ parseResult = NoParseResult
    /\ mainResult = <<>>
    /\ claude = IdleCall
    /\ config = DefaultConfig

NextUnchecked ==
    \/ \E o \in Options : Start(Main, o) /\ UNCHANGED <<idVars, graphVars, mergeVars, modeVars, configVars, claudeVars, repairVars>>
    \/ \E i \in TaskIds, st \in Statuses :
          SetTaskStatus(i, st) /\ UNCHANGED <<idVars, graphVars, mergeVars, modeVars, configVars, claudeVars, repairVars>>
    \/ LoadInput(Main) /\ UNCHANGED <<idVars, graphVars, mergeVars, modeVars, configVars, claudeVars, repairVars>>
    \/ LoadExistingReport(Main) /\ UNCHANGED <<idVars, graphVars, mergeVars, modeVars, configVars, claudeVars, repairVars>>
    \/ ShortCircuitEmpty(Main) /\ UNCHANGED <<idVars, graphVars, mergeVars, modeVars, configVars, claudeVars, repairVars>>
    \/ WriteEmptyReport(Main) /\ UNCHANGED <<idVars, graphVars, mergeVars, modeVars, configVars, claudeVars, repairVars>>
    \/ CallGenerate(Main) /\ UNCHANGED <<idVars, graphVars, mergeVars, modeVars, configVars, claudeVars, repairVars>>
    \/ GenerateRejects(Main) /\ UNCHANGED <<idVars, graphVars, mergeVars, modeVars, configVars, claudeVars, repairVars>>
    \/ \E resp \in UncheckedResponses :
          GenerateResolves(Main, resp) /\ UNCHANGED <<idVars, graphVars, mergeVars, modeVars, configVars, claudeVars, repairVars>>

SpecUnchecked == InitUnchecked /\ [][NextUnchecked]_vars

\* one run under every configured complexity mode
InitConfig ==
    /\ config \in [complexityMode : ConfiguredModes]
    /\ tasksFile \in TasksFiles
    /\ reportFile = FileWith(PriorReport)
    /\ run = [p \in Procs |-> IdleRun]
    /\ runsLeft = 1
    /\ idInput = <<>>
    /\ idResult = NoIdResult
    /\ graphTasks = EmptyCollection(0)
    /\ cyclesResult = NoCycles
    /\ depResult = NoDep
    /\ mergeInput = NoMergeInput
    /\ mergeResult = NoMergeResult
    /\ modeInput = NoModeInput
    /\ modeResult = NoModeResult
    /\ parseResult = NoParseResult
    /\ mainResult = <<>>
    /\ claude = IdleCall

SpecConfig == InitConfig /\ [][Next]_vars

\* the merge of successive runs applied to every prior file and pair of batches
InitMerge ==
    /\ \E prior \in PriorFiles, a \in SeqsUpTo(NewEntries, MaxResp),
          b \in SeqsUpTo(BatchEntries, MaxResp) :
          mergeInput = [prior |-> prior, a |-> a, b |-> b]
    /\ mergeResult = NoMergeResult
    /\ modeInput = NoModeInput
    /\ modeResult = NoModeResult
    /\ parseResult = NoParseResult
    /\ mainResult = <<>>
    /\ claude = IdleCall
    /\ config = DefaultConfig
    /\ idInput = <<>>
    /\ idResult = NoIdResult
    /\ graphTasks = EmptyCollection(0)
    /\ cyclesResult = NoCycles
    /\ depResult = NoDep
    /\ tasksFile = [readable |-> FALSE, tasks |-> <<>>]
    /\ reportFile = AbsentFile
    /\ run = [p \in Procs |-> IdleRun]
    /\ runsLeft = 0

NextMerge == MergeBatches /\ UNCHANGED <<idVars, graphVars, runVars, modeVars, configVars, claudeVars, repairVars>>

SpecMerge == InitMerge /\ [][NextMerge]_vars

\* the mode functions applied to every mode value and tasks data
InitMode ==
    /\ \E mode \in ModeValues, tasksData \in TasksDatas :
          modeInput = [mode |-> mode, tasksData |-> tasksData]
    /\ modeResult = NoModeResult
    /\ parseResult = NoParseResult
    /\ mainResult = <<>>
    /\ claude = IdleCall
    /\ config = DefaultConfig
    /\ mergeInput = NoMergeInput
    /\ mergeResult = NoMergeResult
    /\ idInput = <<>>
    /\ idResult = NoIdResult
    /\ graphTasks = EmptyCollection(0)
    /\ cyclesResult = NoCycles
    /\ depResult = NoDep
    /\ tasksFile = [readable |-> FALSE, tasks |-> <<>>]
    /\ reportFile = AbsentFile
    /\ run = [p \in Procs |-> IdleRun]
    /\ runsLeft = 0

NextMode ==
    \/ GetValidComplexityMode /\ UNCHANGED <<idVars, graphVars, runVars, mergeVars, configVars, claudeVars, repairVars>>
    \/ GenerateComplexityAnalysisPrompt /\ UNCHANGED <<idVars, graphVars, runVars, mergeVars, configVars, claudeVars, repairVars>>

SpecMode == InitMode /\ [][NextMode]_vars

-----------------------------------------------------------------------------
(* Reference notions the claims are stated with *)

\* the least set holding S and the dependencies of every task in it
RECURSIVE ReachClosure(_, _)
ReachClosure(tasks, S) ==
    LET next == S \cup UNION {Range(GetTask(tasks, x).dependencies) :
                                x \in {y \in S : HasTask(tasks, y)}}
    IN  IF next = S THEN S ELSE ReachClosure(tasks, next)

\* the ids reachable from task t through one or more dependency edges
ReachableFrom(tasks, t) == ReachClosure(tasks, Range(GetTask(tasks, t).dependencies))

OnCycle(tasks, t) == t \in ReachableFrom(tasks, t)
HasCycle(tasks) == \E i \in DOMAIN tasks : OnCycle(tasks, tasks[i].id)

\* s has sub as a contiguous piece
Contains(s, sub) ==
    \E i \in 1..(Len(s) - Len(sub) + 1) : SubSeq(s, i, i + Len(sub) - 1) = sub

\* ^[1-9]\d*(\.[1-9]\d*)*$ as an automaton over the characters
RECURSIVE PatternRun(_, _, _)
PatternRun(s, i, q) ==
    IF i > Len(s) THEN q = "digits"
    ELSE IF q = "segmentStart"
         THEN s[i] \in (Digits \ {"0"}) /\ PatternRun(s, i + 1, "digits")
         ELSE \/ s[i] \in Digits /\ PatternRun(s, i + 1, "digits")
              \/ s[i] = "." /\ PatternRun(s, i + 1, "segmentStart")

MatchesIdPattern(s) == PatternRun(s, 1, "segmentStart")

Task(i, deps) == [id |-> i, dependencies |-> deps]

\* the entries of a report that carry a task id, in order
EntriesOf(entries, id) == SelectSeq(entries, LAMBDA e : e.taskId = id)
IdsOf(entries) == Range(MapTaskIds(entries))
UniqueIds(entries) ==
    \A i, j \in DOMAIN entries : entries[i].taskId = entries[j].taskId => i = j

R == run[Main]

\* the caller passed --id, --from or --to
IdOrRangeOptionGiven(o) == o.id # <<>> \/ o.from # Null \/ o.to # Null

\* the statuses, as written in the tasks file, of the tasks that are analyzed
CountsAsActive(t) == t.status \in {"pending", "Blocked", "in-progress", NoStatus}

\* the run read the tasks file and selected its tasks
Selected == R.pc \notin {"IDLE", "LOAD_INPUT"} /\ R.result.error # "No tasks found"

\* the integer ids the --id option names
RequestedIds(o) == {ParseIdItem(o.id[i]) : i \in DOMAIN o.id} \ {NaN}

\* the requested ids that name no selected task
MissingIds == RequestedIds(R.opts) \ Range(MapIds(R.tasks))

\* the greatest id of the tasks file, whatever the statuses
MaxFileId == CHOOSE m \in Range(MapIds(tasksFile.tasks)) :
                 \A x \in Range(MapIds(tasksFile.tasks)) : x <= m

\* the collection with every dependency id that names no task of it removed
WithoutDangling(tasks) ==
    [i \in DOMAIN tasks |->
        [tasks[i] EXCEPT !.dependencies = SelectSeq(@, LAMBDA d : HasTask(tasks, d))]]

\* the mode a value stands for: itself when it names a mode, else balanced
ResolvedMode(mode) ==
    CASE mode = "standard" -> "standard"
      [] mode = "advanced" -> "advanced"
      [] OTHER -> "balanced"

\* the subtask band of a score: 1-3 -> 2-3, 4-6 -> 3-5, 7-8 -> 5-7, 9-10 -> 7-10
\* (a score between 7 and 9, such as 7.85, has the band 5-7)
BandOf(score) ==
    IF score < 4 THEN <<2, 3>>
    ELSE IF score < 7 THEN <<3, 5>>
    ELSE IF score < 9 THEN <<5, 7>>
    ELSE <<7, 10>>

WithinBand(e) ==
    /\ e.complexityScore >= 1 /\ e.complexityScore <= 10
    /\ e.recommendedSubtasks >= BandOf(e.complexityScore)[1]
    /\ e.recommendedSubtasks <= BandOf(e.complexityScore)[2]

\* invocation q was started when the report file held what invocation p persisted
Sequential(p, q) ==
    /\ run[p].pc = "DONE" /\ run[q].pc = "DONE"
    /\ run[q].before = FileWith(run[p].result.report)

\* both invocations were started on, and loaded, the same report file: neither
\* had persisted when the other loaded
Overlapped(p, q) ==
    /\ run[p].pc = "DONE" /\ run[q].pc = "DONE"
    /\ run[p].before = run[q].before
    /\ run[p].existing = ExistingOf(run[p].before)
    /\ run[q].existing = ExistingOf(run[q].before)

\* the report file holds every id of the starting report and of both runs, and
\* the entries of p that q did not supersede
NoEntryLost(p, q) ==
    /\ IdsOf(Persisted(run[p].before)) \cup IdsOf(run[p].analysis) \cup IdsOf(run[q].analysis)
           \subseteq IdsOf(Persisted(reportFile))
    /\ \A i \in DOMAIN run[p].analysis :
           run[p].analysis[i].taskId \notin IdsOf(run[q].analysis)
               => run[p].analysis[i] \in Range(Persisted(reportFile))

\* the calls of dfsTraversal that expand their node: it is neither on the stack
\* nor visited when the call is made
Expansions(calls) == SelectSeq(calls, LAMBDA c : c.id \notin c.stack /\ c.id \notin c.visited)

\* the calls of dfsTraversal that meet a node on the stack and report a cycle
BackEdges(calls) == SelectSeq(calls, LAMBDA c : c.id \in c.stack)

NoRepeat(s) == \A i, j \in DOMAIN s : s[i] = s[j] => i = j

\* where a token occurs in a text
PositionsOf(s, x) == {i \in DOMAIN s : s[i] = x}
First(S) == CHOOSE i \in S : \A j \in S : i <= j
Last(S) == CHOOSE i \in S : \A j \in S : i >= j

\* a fenced block: an opening fence and a closing one
HasFencedBlock(s) == Cardinality(PositionsOf(s, Fence)) >= 2

\* what stands between the first two fences, without the language word and the
\* white space around
FencedInterior(s) ==
    LET open == First(PositionsOf(s, Fence))
        close == First(PositionsOf(s, Fence) \ {open})
        body == SubSeq(s, open + 1, close - 1)
    IN  Trim(IF body # <<>> /\ body[1] = "json" THEN Tail(body) ELSE body)

\* a '[' exists and the last ']' lies after the first '['
HasBracketPair(s) ==
    /\ PositionsOf(s, "[") # {} /\ PositionsOf(s, "]") # {}
    /\ Last(PositionsOf(s, "]")) > First(PositionsOf(s, "["))

BracketSlice(s) == SubSeq(s, First(PositionsOf(s, "[")), Last(PositionsOf(s, "]")))

\* the positions of the dots of a string, and the text after its last dot
DotPositions(s) == {i \in DOMAIN s : s[i] = "."}
LastDot(s) == CHOOSE i \in DotPositions(s) : \A j \in DotPositions(s) : j <= i
LastSegment(s) == SubSeq(s, LastDot(s) + 1, Len(s))

-----------------------------------------------------------------------------
(* Claims *)

\* C1 as stated: whenever the filtered list is empty and a prior report exists,
\* in every selection mode, the run ends in DONE_NOCHANGE, returns the prior
\* report unchanged, makes no generation call and does not write the report file.
C1_EmptyFilterAlwaysShortCircuits ==
    (R.pc \in Terminal /\ R.existing.present /\ Len(R.tasks) = 0) =>
        /\ R.pc = "DONE_NOCHANGE"
        /\ R.result = Returned(R.existing.report)
        /\ R.genCalls = 0
        /\ R.writes = 0
        /\ reportFile = R.before

\* C1 amended: the short-circuit is taken when an id or range option was
\* supplied; with no such option the run makes no generation call either, but
\* writes and returns a report with fresh meta that keeps the prior entries.
C1_EmptyFilterShortCircuitsUnderIdOrRange ==
    (R.pc \in Terminal /\ R.existing.present /\ Len(R.tasks) = 0) =>
        /\ R.genCalls = 0
        /\ IdOrRangeOptionGiven(R.opts) =>
              /\ R.pc = "DONE_NOCHANGE"
              /\ R.result = Returned(R.existing.report)
              /\ R.writes = 0
              /\ reportFile = R.before
        /\ ~IdOrRangeOptionGiven(R.opts) =>
              /\ R.pc = "DONE"
              /\ R.writes = 1
              /\ R.result = Returned(reportFile.report)
              /\ reportFile.report.meta = Meta(0, Null, Null)
              /\ Persisted(reportFile) = Persisted(R.before)

\* C1 witness: a run under an id or range option selected nothing and returned
\* the existing 3-entry report
C1_Witness ==
    /\ R.pc = "DONE_NOCHANGE"
    /\ IdOrRangeOptionGiven(R.opts)
    /\ Len(R.existing.report.complexityAnalysis) = 3
    /\ R.result.report = R.existing.report
    /\ reportFile = R.before

\* C2: if the prior report holds at most one entry per taskId, every report the
\* run persists holds at most one entry per taskId, whatever the response holds.
C2_PersistedReportUniqueByTaskId ==
    (R.writes > 0 /\ UniqueIds(Persisted(R.before))) => UniqueIds(Persisted(reportFile))

\* C3: a taskId in the report before a run is still in it after the run, and
\* its entry changes only by same-id supersession, that is only if the run's new
\* entries (analyzedTaskIds, line 584) hold that taskId.
C3_ReportNeverShrinks ==
    R.pc # "IDLE" =>
        \A id \in IdsOf(Persisted(R.before)) :
            /\ id \in IdsOf(Persisted(reportFile))
            /\ id \notin IdsOf(R.analysis) =>
                  EntriesOf(Persisted(reportFile), id) = EntriesOf(Persisted(R.before), id)

\* C3 witness: a run wrote a report that supersedes one prior entry and keeps
\* another as it was
C3_Witness ==
    /\ R.pc = "DONE"
    /\ R.gen = "array"
    /\ \E id \in IdsOf(Persisted(R.before)) :
          /\ id \in IdsOf(R.analysis)
          /\ EntriesOf(Persisted(reportFile), id) # EntriesOf(Persisted(R.before), id)
    /\ \E id \in IdsOf(Persisted(R.before)) :
          /\ id \notin IdsOf(R.analysis)
          /\ EntriesOf(Persisted(reportFile), id) = EntriesOf(Persisted(R.before), id)

\* C4: after the reconcile step the taskIds of the new entries are exactly the
\* ids of the filtered tasks.
C4_ReconcileCoversExactlyFiltered ==
    R.gen = "array" => IdsOf(R.analysis) = Range(MapIds(R.tasks))

C6_CyclesIffCyclic ==
    cyclesResult.called =>
        /\ (cyclesResult.cycles # <<>>) <=> HasCycle(graphTasks)
        /\ graphTasks = <<Task(1, <<>>), Task(2, <<1>>), Task(3, <<1, 2>>)>>
              => cyclesResult.cycles = <<>>

\* C6 witness: a collection with a self-dependency was checked and a cycle reported
C6_Witness ==
    /\ cyclesResult.called
    /\ \E i \in DOMAIN graphTasks : graphTasks[i].id \in Range(graphTasks[i].dependencies)
    /\ cyclesResult.cycles # <<>>

\* C7: for the collection {1:[2], 2:[1]} cycle detection returns exactly one
\* cycle string, containing 1 -> 2 -> 1; rotations of the cycle are not
\* reported separately.
C7_OneCycleForTwoCycle ==
    (cyclesResult.called /\ graphTasks = <<Task(1, <<2>>), Task(2, <<1>>)>>) =>
        /\ Len(cyclesResult.cycles) = 1
        /\ Contains(cyclesResult.cycles[1], <<1, 2, 1>>)

\* C8: hasDependency(task, targetId, allTasks), for a task of allTasks, is true
\* exactly when targetId is reachable from the task through one or more
\* dependency edges; with targetId = task.id, exactly when the task is on a cycle.
C8_HasDependencyIsReachability ==
    depResult.called =>
        /\ depResult.res <=> depResult.target \in ReachableFrom(graphTasks, depResult.task)
        /\ depResult.target = depResult.task
              => (depResult.res <=> OnCycle(graphTasks, depResult.task))

\* C8 witness: a target reached only through another task was found
C8_Witness ==
    /\ depResult.called
    /\ depResult.res
    /\ depResult.target \notin Range(GetTask(graphTasks, depResult.task).dependencies)

\* C9: hasDependency returns false whenever targetId is missing from allTasks,
\* even when a task on the way lists it.
C9_MissingTargetIsFalse ==
    (depResult.called /\ ~HasTask(graphTasks, depResult.target)) => ~depResult.res

\* C10: parseTaskId(s).isValid is true exactly when s matches
\* ^[1-9]\d*(\.[1-9]\d*)*$.
C10_ValidIffPattern ==
    idResult.called => (idResult.value.isValid <=> MatchesIdPattern(idInput))

\* C11: parseTaskId(id).parent is undefined when id has one segment; otherwise
\* it is id with its last segment removed: parent + '.' + lastSegment equals id
\* and parseTaskId(parent).level equals level - 1 ('2.1.1' has parent '2.1').
C11_ParentIsIdWithoutLastSegment ==
    idResult.called =>
        LET v == idResult.value
        IN  /\ DotPositions(idInput) = {} => v.parent = Undefined
            /\ DotPositions(idInput) # {} =>
                  /\ v.parent # Undefined
                  /\ v.parent \o <<".">> \o LastSegment(idInput) = idInput
                  /\ parseTaskId(v.parent).level = v.level - 1
            /\ idInput = <<"2", ".", "1", ".", "1">> => v.parent = <<"2", ".", "1">>

\* C11 witness: a three-segment identifier was parsed and its parent has two
C11_Witness ==
    /\ idResult.called
    /\ idResult.value.level = 3
    /\ idResult.value.isValid
    /\ parseTaskId(idResult.value.parent).level = 2

\* C12: the status filter is applied first in every selection mode: a selected
\* task is a task of the tasks file whose status, lower-cased and 'pending'
\* when absent, is pending, blocked or in-progress; with no id or range option
\* the selection is exactly those tasks ([{1,done},{2,pending}] selects {2}).
C12_StatusFilterFirst ==
    Selected =>
        /\ \A i \in DOMAIN R.tasks :
              R.tasks[i] \in Range(tasksFile.tasks) /\ CountsAsActive(R.tasks[i])
        /\ ~IdOrRangeOptionGiven(R.opts) =>
              R.tasks = SelectSeq(tasksFile.tasks, CountsAsActive)
        /\ (~IdOrRangeOptionGiven(R.opts)
              /\ tasksFile.tasks = <<[id |-> 1, status |-> "done"],
                                     [id |-> 2, status |-> "pending"]>>)
              => MapIds(R.tasks) = <<2>>

\* C12 witness: with no id or range option a run finished having selected the
\* task written 'Blocked' and passed over the task written 'done'
C12_Witness ==
    /\ R.pc = "DONE"
    /\ ~IdOrRangeOptionGiven(R.opts)
    /\ tasksFile.tasks = <<[id |-> 1, status |-> "done"], [id |-> 2, status |-> "Blocked"]>>
    /\ MapIds(R.tasks) = <<2>>

\* C13: with an explicit id set the selected tasks are exactly the active tasks
\* whose id is in the set; whenever a requested id is not found or not active a
\* warning listing exactly the missing ids is reported, for a CLI caller and
\* for an MCP caller alike, and the run is not aborted.
C13_IdSetSelectsAndWarns ==
    (Selected /\ RequestedIds(R.opts) # {}) =>
        /\ R.tasks = SelectSeq(tasksFile.tasks,
                               LAMBDA t : CountsAsActive(t) /\ t.id \in RequestedIds(R.opts))
        /\ MissingIds # {} =>
              R.warning.kind # "none" /\ Range(R.warning.ids) = MissingIds
        /\ R.pc = "FAILED" => R.gen # "none"

\* C14: with an id range the selected tasks are exactly the active tasks whose
\* id satisfies from <= id <= to, both bounds inclusive, where a missing from
\* is 1 and a missing to is the greatest id of the whole tasks file.
C14_RangeSelectsInclusive ==
    (Selected /\ RequestedIds(R.opts) = {} /\ (R.opts.from # Null \/ R.opts.to # Null)) =>
        LET lo == IF R.opts.from = Null THEN 1 ELSE R.opts.from
            hi == IF R.opts.to = Null THEN MaxFileId ELSE R.opts.to
        IN  R.tasks = SelectSeq(tasksFile.tasks,
                                LAMBDA t : CountsAsActive(t) /\ lo <= t.id /\ t.id <= hi)

\* C14 witness: the range 2..2 selected task 2 and only it, of two active tasks
C14_Witness ==
    /\ R.pc = "DONE"
    /\ R.opts.from = 2 /\ R.opts.to = 2
    /\ \A i \in DOMAIN tasksFile.tasks : CountsAsActive(tasksFile.tasks[i])
    /\ Len(tasksFile.tasks) = 2
    /\ MapIds(R.tasks) = <<2>>

\* C15: when the new entries of a run hold one entry for a taskId the prior
\* report already holds, the report the run writes holds exactly one entry for
\* that taskId, the new one; every prior entry with that taskId is dropped.
C15_NewEntrySupersedesPrior ==
    (R.pc = "DONE" /\ R.gen = "array") =>
        \A id \in IdsOf(Persisted(R.before)) :
            Len(EntriesOf(R.analysis, id)) = 1 =>
                EntriesOf(Persisted(reportFile), id) = EntriesOf(R.analysis, id)

\* C15 witness: a prior report held two entries for a taskId, the run brought
\* one different entry for it, and the written report holds that one alone
C15_Witness ==
    /\ R.pc = "DONE" /\ R.gen = "array"
    /\ \E id \in IdsOf(Persisted(R.before)) :
          /\ Len(EntriesOf(Persisted(R.before), id)) = 2
          /\ Len(EntriesOf(R.analysis, id)) = 1
          /\ R.analysis[1] \notin Range(Persisted(R.before))
          /\ EntriesOf(Persisted(reportFile), id) = <<R.analysis[1]>>

\* C16: the merge is idempotent: merging the same new entries a second time
\* into the result of the first merge yields the same complexityAnalysis list,
\* and merging a report's own entries into it leaves its list unchanged.
C16_MergeIdempotent ==
    mergeResult.called =>
        /\ Persisted(mergeResult.aa) = Persisted(mergeResult.a)
        /\ Persisted(mergeResult.self) = Persisted(mergeInput.prior)

\* C16 witness: new entries superseded one prior entry and kept another, and
\* the second merge of them changed nothing
C16_Witness ==
    /\ mergeResult.called
    /\ IdsOf(mergeInput.a) \cap IdsOf(Persisted(mergeInput.prior)) # {}
    /\ IdsOf(Persisted(mergeInput.prior)) \ IdsOf(mergeInput.a) # {}
    /\ Persisted(mergeResult.a) # Persisted(mergeInput.prior)
    /\ Persisted(mergeResult.aa) = Persisted(mergeResult.a)

\* C17: the merge is commutative across batches with disjoint taskIds: for any
\* prior report, merging a then b and merging b then a yield the same entries
\* for every taskId.
C17_MergeCommutesOnDisjoint ==
    (mergeResult.called /\ IdsOf(mergeInput.a) \cap IdsOf(mergeInput.b) = {}) =>
        \A id \in TaskIds :
            EntriesOf(Persisted(mergeResult.ab), id) = EntriesOf(Persisted(mergeResult.ba), id)

\* C17 witness: two non-empty disjoint batches over a prior report that holds
\* a task of each; the lists differ in order and agree on every taskId
C17_Witness ==
    /\ mergeResult.called
    /\ mergeInput.a # <<>> /\ mergeInput.b # <<>>
    /\ IdsOf(mergeInput.a) \cap IdsOf(mergeInput.b) = {}
    /\ IdsOf(Persisted(mergeInput.prior)) = IdsOf(mergeInput.a) \cup IdsOf(mergeInput.b)
    /\ Persisted(mergeResult.ab) # Persisted(mergeResult.ba)
    /\ IdsOf(Persisted(mergeResult.ab)) = IdsOf(Persisted(mergeResult.ba))

\* C18: if the prior report file exists but cannot be read the run does not
\* fail over it: it goes on as if there were no prior report, and with a
\* non-empty filtered set the report it writes holds exactly the new
\* reconciled entries.
C18_UnreadablePriorIsNoPrior ==
    (R.before.state = "unreadable" /\ R.pc \in {"CHECK_EMPTY", "GENERATE"} \cup Terminal
        /\ Selected) =>
        /\ ~R.existing.present
        /\ R.pc = "FAILED" => R.gen \in {"rejected", "notJSON", "notArray"}
        /\ (R.pc = "DONE" /\ Len(R.tasks) > 0) =>
              /\ reportFile.state = "report"
              /\ Persisted(reportFile) = R.analysis
              /\ \A i \in DOMAIN R.tasks : R.tasks[i].id \in IdsOf(Persisted(reportFile))

\* C18 witness: a run over an unreadable report file analyzed two tasks and
\* wrote a report holding its new entries
C18_Witness ==
    /\ R.before.state = "unreadable"
    /\ R.pc = "DONE"
    /\ Len(R.tasks) = 2
    /\ reportFile.state = "report"
    /\ Persisted(reportFile) = R.analysis
    /\ Len(R.analysis) >= 2

\* C19: a dependency id that names no task of the collection is skipped by
\* cycle detection: it never appears in a reported cycle, and
\* findCircularDependencies returns the list it returns for the collection
\* with every dangling dependency id removed.
C19_DanglingDependenciesSkipped ==
    cyclesResult.called =>
        /\ \A i \in DOMAIN cyclesResult.cycles :
              \A j \in DOMAIN cyclesResult.cycles[i] :
                  HasTask(graphTasks, cyclesResult.cycles[i][j])
        /\ cyclesResult.cycles = findCircularDependencies(WithoutDangling(graphTasks))

\* C19 witness: a task lists the same dangling id twice, ahead of its other
\* dependencies, in a collection for which a cycle was reported
C19_Witness ==
    /\ cyclesResult.called
    /\ cyclesResult.cycles # <<>>
    /\ \E i \in DOMAIN graphTasks :
          /\ Len(graphTasks[i].dependencies) >= 2
          /\ ~HasTask(graphTasks, graphTasks[i].dependencies[1])
          /\ graphTasks[i].dependencies[1] = graphTasks[i].dependencies[2]

\* C20: for every mode value getValidComplexityMode returns the value itself
\* when it is 'standard', 'balanced' or 'advanced' and 'balanced' otherwise,
\* and generateComplexityAnalysisPrompt renders the template of that resolved
\* mode over the tasks (null, undefined, '' or an invalid mode renders balanced).
C20_ModeResolvesWithBalancedFallback ==
    /\ modeResult.called = "getValidComplexityMode" =>
          modeResult.mode = ResolvedMode(modeInput.mode)
    /\ modeResult.called = "generateComplexityAnalysisPrompt" =>
          /\ modeResult.prompt.template = ResolvedMode(modeInput.mode)
          /\ modeResult.prompt.tasksString = modeInput.tasksData.tasks
          /\ modeInput.mode \in {NullMode, UndefinedMode, "", "invalid-mode"} =>
                modeResult.prompt.template = "balanced"

\* C20 witness: a prompt for two tasks was asked for with a mode written
\* 'Standard', and the balanced template was rendered
C20_Witness ==
    /\ modeResult.called = "generateComplexityAnalysisPrompt"
    /\ modeInput.mode = "Standard"
    /\ Len(modeInput.tasksData.tasks) = 2
    /\ modeResult.prompt = [template |-> "balanced", tasksString |-> modeInput.tasksData.tasks]

\* C21: the prompt handed to the generation service is the one rendered by the
\* template of the configured complexity mode (standard, balanced or advanced,
\* balanced when none is configured) over the selected tasks.
C21_PromptUsesConfiguredMode ==
    R.genCalls > 0 =>
        /\ R.prompt.template = ResolvedMode(config.complexityMode)
        /\ R.prompt.tasksString = R.tasks

\* C22: every entry of a persisted report, produced by the response or
\* synthesized by reconcile, has recommendedSubtasks inside the band of its
\* complexityScore: 1-3 give 2-3 subtasks, 4-6 give 3-5, 7-8 give 5-7 (7.85
\* included), 9-10 give 7-10.
C22_PersistedEntriesWithinBand ==
    \A i \in DOMAIN Persisted(reportFile) : WithinBand(Persisted(reportFile)[i])

\* C23: a call of generateClaudeCodeText always settles: when the claude process
\* has neither exited nor failed once the timeout (30 seconds by default) has
\* passed, the call is rejected with a timeout error and is pending no longer.
C23_PendingCallRejectsAtTimeout ==
    claude.clock > DefaultTimeout =>
        /\ claude.pc = "rejected"
        /\ claude.error = "Claude Code command timed out"

C25_SequentialRunsLoseNothing ==
    \A p, q \in Procs : (p # q /\ Sequential(p, q)) => NoEntryLost(p, q)

\* the race: overlapping invocations on disjoint ids, and the entries of one of
\* them are missing from the report file
C25_Witness ==
    \E p, q \in Procs :
        /\ p # q /\ Overlapped(p, q)
        /\ run[p].analysis # <<>> /\ run[q].analysis # <<>>
        /\ IdsOf(run[p].analysis) \cap IdsOf(run[q].analysis) = {}
        /\ reportFile = FileWith(run[q].result.report)
        /\ IdsOf(run[p].analysis) \cap IdsOf(Persisted(reportFile)) = {}

\* C26: the text handed to the JSON parser follows the repair order: the text
\* is trimmed; when it holds a fenced block, the interior of the block is used,
\* also when brackets stand outside the block; otherwise, when a '[' exists and
\* the last ']' lies after the first '[', the slice from the first '[' to the
\* last ']' is used; otherwise the trimmed text is parsed as it is and the
\* parser's own error is surfaced.
C26_RepairOrder ==
    parseResult.called =>
        LET trimmed == Trim(mainResult)
            cleaned == parseResult.cleanedResponse
        IN  /\ HasFencedBlock(trimmed) => cleaned = FencedInterior(trimmed)
            /\ (~HasFencedBlock(trimmed) /\ HasBracketPair(trimmed)) =>
                   cleaned = BracketSlice(trimmed)
            /\ (~HasFencedBlock(trimmed) /\ ~HasBracketPair(trimmed)) =>
                   /\ cleaned = trimmed
                   /\ trimmed # <<"{e}">> => parseResult.error = "SyntaxError"

\* a text with brackets outside its fenced block was repaired to the interior
C26_Witness ==
    /\ parseResult.called
    /\ mainResult = <<"[", Fence, "{e}", Fence, "]">>
    /\ parseResult.cleanedResponse = <<"{e}">>

\* C27: findCircularDependencies and hasDependency return on every finite
\* collection, with cycles, self-dependencies and dangling dependency ids
\* included, and each traversal expands a node at most once per DFS root.
C27_TraversalsReturnExpandingOnce ==
    /\ cyclesResult.called =>
          /\ DOMAIN cyclesResult.calls = DOMAIN graphTasks
          /\ \A r \in DOMAIN cyclesResult.calls :
                LET expanded == Expansions(cyclesResult.calls[r])
                IN  /\ expanded # <<>> /\ expanded[1].id = graphTasks[r].id
                    /\ \A i, j \in DOMAIN expanded : expanded[i].id = expanded[j].id => i = j
    /\ depResult.called =>
          /\ depResult.res \in BOOLEAN
          /\ depResult.visited # <<>>
          /\ depResult.visited[1] = graphTasks[depResult.task].id
          /\ NoRepeat(depResult.visited)

\* cycle detection returned on a collection with a cycle and a dangling id,
\* where more than one call of a root met a node it did not expand
C27_Witness ==
    /\ cyclesResult.called
    /\ cyclesResult.cycles # <<>>
    /\ \E i \in DOMAIN graphTasks : DanglingId \in Range(graphTasks[i].dependencies)
    /\ \E r \in DOMAIN cyclesResult.calls : Len(cyclesResult.calls[r]) > Len(Expansions(cyclesResult.calls[r])) + 1

\* C28: during cycle detection the on-stack set equals the set of ids on the
\* current DFS path, so every reported cycle is genuine: its first and last id
\* are equal, every consecutive pair a -> b has b among the dependencies of a,
\* every id names a task; and at most one cycle is reported per DFS root, so
\* the result has at most as many cycles as there are tasks and no duplicates.
C28_StackIsPathAndCyclesGenuine ==
    cyclesResult.called =>
        /\ \A r \in DOMAIN cyclesResult.calls :
              /\ \A k \in DOMAIN cyclesResult.calls[r] :
                    cyclesResult.calls[r][k].stack = Range(cyclesResult.calls[r][k].path)
              /\ Len(BackEdges(cyclesResult.calls[r])) <= 1
        /\ \A n \in DOMAIN cyclesResult.cycles :
              LET cycle == cyclesResult.cycles[n]
              IN  /\ Len(cycle) >= 2
                  /\ cycle[1] = cycle[Len(cycle)]
                  /\ \A k \in 1..(Len(cycle) - 1) :
                        /\ HasTask(graphTasks, cycle[k])
                        /\ cycle[k + 1] \in Range(GetTask(graphTasks, cycle[k]).dependencies)
        /\ Len(cyclesResult.cycles) <= Len(graphTasks)
        /\ NoRepeat(cyclesResult.cycles)

\* a cycle was reported from a call two levels below its root
C28_Witness ==
    /\ cyclesResult.called
    /\ \E r \in DOMAIN cyclesResult.calls :
          \E k \in DOMAIN cyclesResult.calls[r] :
              /\ cyclesResult.calls[r][k].id \in cyclesResult.calls[r][k].stack
              /\ Len(cyclesResult.calls[r][k].path) >= 2
    /\ cyclesResult.cycles # <<>>

\* C29: when the id option is a non-empty string, every task sent for analysis
\* has an id listed in the option; an id option with no item that parses to an
\* integer never has all the active tasks analysed.
C29_IdOptionBoundsAnalysis ==
    (R.genCalls > 0 /\ R.opts.id # NoIdOption) =>
        \A i \in DOMAIN R.prompt.tasksString :
            R.prompt.tasksString[i].id \in RequestedIds(R.opts)

\* C30: every report written to the output path, on the normal path and on the
\* path of an empty selection alike, carries meta.tasksAnalyzed, meta.totalTasks
\* and meta.analysisCount: analysisCount is the number of entries of
\* complexityAnalysis, tasksAnalyzed the number of tasks selected in the run and
\* totalTasks the number of tasks of the tasks file before any filter.
C30_WrittenReportCarriesCounts ==
    (R.writes > 0 /\ reportFile.state = "report") =>
        /\ reportFile.report.meta.analysisCount = Len(reportFile.report.complexityAnalysis)
        /\ reportFile.report.meta.tasksAnalyzed = Len(R.tasks)
        /\ reportFile.report.meta.totalTasks = Len(tasksFile.tasks)

=============================================================================
